---- MODULE Spec2Model ----
(***************************************************************************)
(* Motion control of the quadruped robot: servos.py (Servo,                *)
(* ServoController), gaits.py (GaitController), robot.py (Robot.update)    *)
(* with the configuration tables of servo_config.py.                       *)
(*                                                                         *)
(* Units.  Angles are integers in 1/10000 of a degree, so that the sine    *)
(* table below, the swing amplitude and the per-millisecond servo rates    *)
(* (54 deg/s = 540 units/ms, 43.2 deg/s = 432 units/ms) are all exact.     *)
(* Times are integers in milliseconds, as time.ticks_ms() counts them.     *)
(* The gait phase is counted in sixteenths of a cycle; the clock advances  *)
(* in steps of 100 ms, for which dt / (0.8 / speed) is a whole number of   *)
(* sixteenths when the speed is a whole number.  Python's float rounding   *)
(* is not modelled: arithmetic is exact.                                   *)
(***************************************************************************)
EXTENDS Integers, Sequences, FiniteSets, TLC

Deg(d) == d * 10000

Min(a, b) == IF a <= b THEN a ELSE b
Max(a, b) == IF a >= b THEN a ELSE b
Abs(a) == IF a < 0 THEN -a ELSE a

\* Python's None.  A keyframe position map that is None and one that is the
\* empty dict are both falsy in `if pos:` and are not told apart.
None == << >>

(***************************************************************************)
(* servo_config.py                                                         *)
(***************************************************************************)
FEMUR_SERVOS == {"R1", "R2", "L1", "L2"}
KNEE_SERVOS == {"R3", "R4", "L3", "L4"}
ALL_SERVOS == FEMUR_SERVOS \cup KNEE_SERVOS

SERVO_INVERTED ==
  [R1 |-> FALSE, R2 |-> FALSE, L1 |-> TRUE, L2 |-> TRUE,
   R3 |-> FALSE, R4 |-> TRUE, L3 |-> TRUE, L4 |-> FALSE]

\* (min_angle, max_angle) of every servo, in degrees.
SERVO_LIMITS == [n \in ALL_SERVOS |-> <<0, 180>>]

SERVO_CENTER == [n \in ALL_SERVOS |-> 90]

\* SERVO_SPEED in thousandths: 0.15 for the femurs, 0.12 for the knees.
SERVO_SPEED == [n \in ALL_SERVOS |-> IF n \in FEMUR_SERVOS THEN 150 ELSE 120]

SPEED_MULTIPLIER == 1

GAIT ==
  [STAND_FEMUR |-> 90, STAND_KNEE |-> 180, SPLAY_KNEE |-> 90,
   STEP_LIFT |-> 110, STEP_PLANT |-> 180, STEP_FWD |-> 115, STEP_BACK |-> 65]

LEGS ==
  [FR |-> <<"R1", "R3">>, FL |-> <<"L1", "L3">>,
   BR |-> <<"R2", "R4">>, BL |-> <<"L2", "L4">>]

(***************************************************************************)
(* servos.py: class Servo.  A servo is the record                          *)
(* [current_angle, target_angle, duty]; duty is the last value handed to   *)
(* pwm.duty_u16.  The servo's name selects its configuration.              *)
(***************************************************************************)
PWM_FREQ == 50
MIN_US == 500
MAX_US == 2500

min_angle(name) == Deg(SERVO_LIMITS[name][1])
max_angle(name) == Deg(SERVO_LIMITS[name][2])

\* Clamp with the limits left out.
ClampNone(name, angle) == angle

\* The clamp of _write_angle and set_angle: max(min_angle, min(max_angle, angle)).
Clamp(name, angle) == Max(min_angle(name), Min(max_angle(name), angle))

\* floor(x * m / (d1 * d2)) computed without leaving 32 bits.
MulDivFloor(x, m, d1, d2) ==
  LET q == x \div d1
      r == x % d1
      a1 == (q * m) \div d2
      a0 == (q * m) % d2
  IN  a1 + ((a0 * d1 + r * m) \div (d1 * d2))

\* _angle_to_duty that ignores SERVO_INVERTED.
_angle_to_duty_no_inversion(name, angle) ==
  LET unitsPerUs == Deg(180) \div (MAX_US - MIN_US)
      period_us == 1000000 \div PWM_FREQ
  IN  MulDivFloor(MIN_US * unitsPerUs + angle, 65535 \div 15,
                  (unitsPerUs * period_us) \div (15 * 1000), 1000)

\* Servo._angle_to_duty.  With a the (possibly mirrored) angle in units,
\* pulse_us = MIN_US + (a / Deg(180)) * (MAX_US - MIN_US), period_us =
\* 1000000 / PWM_FREQ and duty = int(pulse_us / period_us * 65535), i.e.
\* floor((MIN_US * 900 + a) * 65535 / (900 * period_us)) for the 0..180
\* range, where 900 = Deg(180) / (MAX_US - MIN_US); 65535 / (900 * 20000)
\* is reduced by 15 to 4369 / (1200 * 1000).
_angle_to_duty(name, angle) ==
  LET a == IF SERVO_INVERTED[name] THEN Deg(180) - angle ELSE angle
      unitsPerUs == Deg(180) \div (MAX_US - MIN_US)
      period_us == 1000000 \div PWM_FREQ
  IN  MulDivFloor(MIN_US * unitsPerUs + a, 65535 \div 15,
                  (unitsPerUs * period_us) \div (15 * 1000), 1000)

\* Servo._write_angle: clamp, emit the duty, store current_angle.
_write_angle(name, servo, angle) ==
  LET a == Clamp(name, angle)
  IN  [servo EXCEPT !.duty = _angle_to_duty(name, a), !.current_angle = a]

\* set_angle that writes the angle whatever `immediate` says.
set_angle_always_writes(name, servo, angle, immediate) ==
  LET a == Clamp(name, angle)
  IN  _write_angle(name, [servo EXCEPT !.target_angle = a], a)

\* Servo.set_angle.
set_angle(name, servo, angle, immediate) ==
  LET a == Clamp(name, angle)
      s == [servo EXCEPT !.target_angle = a]
  IN  IF immediate THEN _write_angle(name, s, a) ELSE s

\* speed * delta_time of Servo.update, in angle units for delta_time in ms:
\* SERVO_SPEED (thousandths) * 360 * SPEED_MULTIPLIER deg/s * dt ms.
\* max_step that the truncation to whole units leaves at nothing.
max_step_zero(name, delta_time) == 0 * delta_time

max_step(name, delta_time) ==
  (SERVO_SPEED[name] * 360 * SPEED_MULTIPLIER * delta_time) \div 100

\* Servo.update: the servo afterwards and the returned flag.
\* Servo.update that steps straight to the target, whatever the speed.
servo_update_jump(name, servo, delta_time) ==
  IF Abs(servo.current_angle - servo.target_angle) < Deg(1) \div 2
    THEN [servo |-> servo, moving |-> FALSE]
    ELSE [servo |-> _write_angle(name, servo, servo.target_angle),
          moving |-> TRUE]

\* Servo.update.
servo_update(name, servo, delta_time) ==
  IF Abs(servo.current_angle - servo.target_angle) < Deg(1) \div 2
    THEN [servo |-> servo, moving |-> FALSE]
    ELSE LET ms == max_step(name, delta_time)
             diff == servo.target_angle - servo.current_angle
             step == Max(-ms, Min(ms, diff))
         IN  [servo |-> _write_angle(name, servo, servo.current_angle + step),
              moving |-> TRUE]

\* attach that writes the target angle.
attach_target(name, servo) == _write_angle(name, servo, servo.target_angle)

\* Servo.detach and Servo.attach.
detach(servo) == [servo EXCEPT !.duty = 0]
attach(name, servo) == _write_angle(name, servo, servo.current_angle)

\* Servo.__init__: current and target at the center, then _write_angle(center).
servo_init(name) ==
  _write_angle(name,
               [current_angle |-> Deg(SERVO_CENTER[name]),
                target_angle |-> Deg(SERVO_CENTER[name]),
                duty |-> 0],
               Deg(SERVO_CENTER[name]))

(***************************************************************************)
(* servos.py: class ServoController, on the map name -> servo.             *)
(***************************************************************************)
controller_init == [n \in ALL_SERVOS |-> servo_init(n)]

\* set_servo that falls back on the first joint for a name it does not know.
set_servo_default(servos, name, angle, immediate) ==
  IF name \in DOMAIN servos
    THEN [servos EXCEPT ![name] = set_angle(name, servos[name], angle, immediate)]
    ELSE [servos EXCEPT !["R1"] = set_angle("R1", servos["R1"], angle, immediate)]

\* ServoController.set_servo.
set_servo(servos, name, angle, immediate) ==
  IF name \in DOMAIN servos
    THEN [servos EXCEPT ![name] = set_angle(name, servos[name], angle, immediate)]
    ELSE servos

set_leg(servos, leg_name, femur_angle, knee_angle, immediate) ==
  IF leg_name \in DOMAIN LEGS
    THEN set_servo(set_servo(servos, LEGS[leg_name][1], femur_angle, immediate),
                   LEGS[leg_name][2], knee_angle, immediate)
    ELSE servos

\* center_all that never writes the joints, whatever immediate is.
center_all_smooth(S, immediate) ==
  [n \in DOMAIN S |-> set_angle(n, S[n], Deg(SERVO_CENTER[n]), FALSE)]

center_all(servos, immediate) ==
  [n \in DOMAIN servos |->
     set_angle(n, servos[n], Deg(SERVO_CENTER[n]), immediate)]

\* The order in which ServoController.servos holds the joints.
SERVO_ORDER == <<"R1", "R2", "L1", "L2", "R3", "R4", "L3", "L4">>

\* update_all that stops at the first joint that reports moving.
update_all_until_moving(servos, delta_time) ==
  LET idx(n) == CHOOSE i \in 1..Len(SERVO_ORDER) : SERVO_ORDER[i] = n
      moved_before(n) ==
        \E m \in DOMAIN servos :
          idx(m) < idx(n) /\ servo_update(m, servos[m], delta_time).moving
  IN  [servos |-> [n \in DOMAIN servos |->
                     IF moved_before(n)
                       THEN servos[n]
                       ELSE servo_update(n, servos[n], delta_time).servo],
       moving |-> \E n \in DOMAIN servos :
                     servo_update(n, servos[n], delta_time).moving]

\* update_all: every servo is updated; True if any reported moving.
update_all(servos, delta_time) ==
  [servos |-> [n \in DOMAIN servos |->
                 servo_update(n, servos[n], delta_time).servo],
   moving |-> \E n \in DOMAIN servos :
                 servo_update(n, servos[n], delta_time).moving]

\* set_positions that centers the joints the map does not name.
set_positions_centers_rest(servos, positions, immediate) ==
  [n \in DOMAIN servos |->
     IF n \in DOMAIN positions
       THEN set_angle(n, servos[n], positions[n], immediate)
       ELSE set_angle(n, servos[n], Deg(SERVO_CENTER[n]), immediate)]

\* set_positions: set_servo for every (name, angle) item of the dict; the
\* names of a dict are distinct, so the order of the items has no effect.
set_positions(servos, positions, immediate) ==
  [n \in DOMAIN servos |->
     IF n \in DOMAIN positions
       THEN set_angle(n, servos[n], positions[n], immediate)
       ELSE servos[n]]

get_positions(servos) == [n \in DOMAIN servos |-> servos[n].current_angle]
get_targets(servos) == [n \in DOMAIN servos |-> servos[n].target_angle]

detach_all(servos) == [n \in DOMAIN servos |-> detach(servos[n])]
attach_all(servos) == [n \in DOMAIN servos |-> attach(n, servos[n])]

(***************************************************************************)
(* gaits.py: class GaitController.  The controller is the record `gait`;   *)
(* its operations act on the record R = [servos, gait, calls, moving],     *)
(* where calls logs, in order, the calls update_walk, _next and update_all *)
(* made during one operation and moving is what update_all returned.       *)
(*                                                                         *)
(* A keyframe is <<pos, dur>>: pos a map name -> angle (or None), dur the  *)
(* hold time.  Durations are written in milliseconds: the float seconds    *)
(* of the source and int(dur * 1000) are the same number here.             *)
(* movement_elapsed stands for movement_start_time: it is the value of     *)
(* time.ticks_diff(time.ticks_ms(), movement_start_time), the only way     *)
(* the code reads that field, and it reads it only while is_moving is      *)
(* true (GaitController.update): the clock counts it only then.            *)
(***************************************************************************)
stand_femur == GAIT.STAND_FEMUR
stand_knee == GAIT.STAND_KNEE
step_lift == GAIT.STEP_LIFT
step_plant == GAIT.STEP_PLANT
step_fwd == GAIT.STEP_FWD
step_back == GAIT.STEP_BACK

\* A position map written in degrees, in angle units.
Pos(degrees) == [n \in DOMAIN degrees |-> Deg(degrees[n])]

PoseOf(femur, knee) ==
  [n \in ALL_SERVOS |-> IF n \in FEMUR_SERVOS THEN femur ELSE knee]

POSE_NAMES == {"neutral", "stand", "sit", "tall", "crouch"}

\* GaitController.get_pose: poses.get(name, poses["neutral"]).
get_pose(name) ==
  CASE name = "stand" -> Pos(PoseOf(stand_femur, stand_knee))
    [] name = "sit" -> Pos(PoseOf(90, 45))
    [] name = "tall" -> Pos(PoseOf(90, 180))
    [] name = "crouch" -> Pos(PoseOf(90, 120))
    [] OTHER -> Pos(PoseOf(90, 90))

\* GaitController.__init__.
gait_init ==
  [is_walking |-> FALSE, walk_phase |-> 0, walk_speed |-> 1,
   walk_direction |-> 0, turn_direction |-> 0,
   is_moving |-> FALSE, movement_queue |-> << >>, current_movement |-> None,
   movement_elapsed |-> 0, movement_duration |-> 0]

\* set_pose that only sets the targets, whatever `immediate` says.
set_pose_targets_only(R, name, immediate) ==
  [R EXCEPT !.servos = set_positions(R.servos, get_pose(name), FALSE)]

\* set_pose that does nothing for a name that is no pose.
set_pose_known_only(R, name, immediate) ==
  IF name \in POSE_NAMES
    THEN [R EXCEPT !.servos = set_positions(R.servos, get_pose(name), immediate)]
    ELSE R

\* GaitController.set_pose.
set_pose(R, name, immediate) ==
  [R EXCEPT !.servos = set_positions(R.servos, get_pose(name), immediate)]

\* 10000 * sin(2 * pi * k / 16), rounded.
Sin16 ==
  <<0, 3827, 7071, 9239, 10000, 9239, 7071, 3827,
    0, -3827, -7071, -9239, -10000, -9239, -7071, -3827>>

\* A sine of twice the amplitude.
sin2pi_doubled(phase16) == 2 * Sin16[(phase16 % 16) + 1]

\* math.sin(phase * 2 * math.pi) in angle units per degree, phase in
\* sixteenths (any integer: the sine is periodic).
sin2pi(phase16) == Sin16[(phase16 % 16) + 1]

\* get_walk_positions with Group B a quarter of a cycle after Group A.
get_walk_positions_quarter(phase, direction, turn) ==
  LET p == phase % 16
      swing == (step_fwd - step_back) \div 2
      center == (step_fwd + step_back) \div 2
      femur_a == Deg(center) + sin2pi(p) * swing * direction
      femur_b == Deg(center) + sin2pi(p + 4) * swing * direction
      knee_a == Deg(step_plant) + Max(0, sin2pi(p)) * (step_lift - step_plant)
      knee_b == Deg(step_plant) + Max(0, sin2pi(p + 4)) * (step_lift - step_plant)
      turn_bias == Deg(15) * turn
  IN  [R1 |-> femur_a - turn_bias, R3 |-> knee_a,
       L2 |-> femur_a + turn_bias, L4 |-> knee_a,
       L1 |-> femur_b + turn_bias, L3 |-> knee_b,
       R2 |-> femur_b - turn_bias, R4 |-> knee_b]

\* get_walk_positions with the turn bias added on both sides.
get_walk_positions_same_bias(phase, direction, turn) ==
  LET p == phase % 16
      swing == (step_fwd - step_back) \div 2
      center == (step_fwd + step_back) \div 2
      femur_a == Deg(center) + sin2pi(p) * swing * direction
      femur_b == Deg(center) + sin2pi(p + 8) * swing * direction
      knee_a == Deg(step_plant) + Max(0, sin2pi(p)) * (step_lift - step_plant)
      knee_b == Deg(step_plant) + Max(0, sin2pi(p + 8)) * (step_lift - step_plant)
      turn_bias == Deg(15) * turn
  IN  [R1 |-> femur_a + turn_bias, R3 |-> knee_a,
       L2 |-> femur_a + turn_bias, L4 |-> knee_a,
       L1 |-> femur_b + turn_bias, L3 |-> knee_b,
       R2 |-> femur_b + turn_bias, R4 |-> knee_b]

\* get_walk_positions that lifts a knee by the size of the sine, whatever
\* its sign.
get_walk_positions_abs_lift(phase, direction, turn) ==
  LET p == phase % 16
      swing == (step_fwd - step_back) \div 2
      center == (step_fwd + step_back) \div 2
      femur_a == Deg(center) + sin2pi(p) * swing * direction
      femur_b == Deg(center) + sin2pi(p + 8) * swing * direction
      knee_a == Deg(step_plant) + Abs(sin2pi(p)) * (step_lift - step_plant)
      knee_b == Deg(step_plant) + Abs(sin2pi(p + 8)) * (step_lift - step_plant)
      turn_bias == Deg(15) * turn
  IN  [R1 |-> femur_a - turn_bias, R3 |-> knee_a,
       L2 |-> femur_a + turn_bias, L4 |-> knee_a,
       L1 |-> femur_b + turn_bias, L3 |-> knee_b,
       R2 |-> femur_b - turn_bias, R4 |-> knee_b]

\* GaitController.get_walk_positions, phase in sixteenths of a cycle.
get_walk_positions(phase, direction, turn) ==
  LET p == phase % 16
      swing == (step_fwd - step_back) \div 2
      center == (step_fwd + step_back) \div 2
      femur_a == Deg(center) + sin2pi(p) * swing * direction
      femur_b == Deg(center) + sin2pi(p + 8) * swing * direction
      knee_a == Deg(step_plant) + Max(0, sin2pi(p)) * (step_lift - step_plant)
      knee_b == Deg(step_plant) + Max(0, sin2pi(p + 8)) * (step_lift - step_plant)
      turn_bias == Deg(15) * turn
  IN  [R1 |-> femur_a - turn_bias, R3 |-> knee_a,
       L2 |-> femur_a + turn_bias, L4 |-> knee_a,
       L1 |-> femur_b + turn_bias, L3 |-> knee_b,
       R2 |-> femur_b - turn_bias, R4 |-> knee_b]

\* GaitController.start_walk.
start_walk(R, direction, turn, speed) ==
  [R EXCEPT !.gait.is_walking = TRUE, !.gait.walk_direction = direction,
            !.gait.turn_direction = turn, !.gait.walk_speed = speed]

\* stop_walk that applies the standing pose immediately.
stop_walk_immediate(R) ==
  set_pose([R EXCEPT !.gait.is_walking = FALSE], "stand", TRUE)

\* stop_walk that only stops the walk cycle and sets no pose.
stop_walk_no_pose(R) == [R EXCEPT !.gait.is_walking = FALSE]

\* GaitController.stop_walk.
stop_walk(R) ==
  set_pose([R EXCEPT !.gait.is_walking = FALSE], "stand", FALSE)

\* update_walk raises ZeroDivisionError in 0.8 / self.walk_speed.
update_walk_raises(gait) == gait.is_walking /\ gait.walk_speed = 0

\* dt / (0.8 / walk_speed) in sixteenths of a cycle, dt in ms: one
\* sixteenth of the 800 ms base period is 50 ms.
phase_advance(dt, walk_speed) == (dt * walk_speed) \div 50

\* walk_phase that is never brought back below one cycle.
next_walk_phase_no_wrap(gait, dt) ==
  gait.walk_phase + phase_advance(dt, gait.walk_speed)

\* walk_phase after update_walk: advanced, and one cycle shorter when the
\* advance reached 1.0 (16 sixteenths).
next_walk_phase(gait, dt) ==
  LET p1 == gait.walk_phase + phase_advance(dt, gait.walk_speed)
  IN  IF p1 >= 16 THEN p1 - 16 ELSE p1

\* update_walk that sets the gait's positions as targets only.
update_walk_smooth(R, dt) ==
  IF ~R.gait.is_walking THEN R
  ELSE LET p2 == next_walk_phase(R.gait, dt)
       IN  [R EXCEPT !.calls = Append(@, "update_walk"),
                     !.gait.walk_phase = p2,
                     !.servos = set_positions(
                        R.servos,
                        get_walk_positions(p2, R.gait.walk_direction,
                                           R.gait.turn_direction),
                        FALSE)]

\* GaitController.update_walk, when it does not raise.
update_walk(R, dt) ==
  IF ~R.gait.is_walking THEN R
  ELSE LET p2 == next_walk_phase(R.gait, dt)
       IN  [R EXCEPT !.calls = Append(@, "update_walk"),
                     !.gait.walk_phase = p2,
                     !.servos = set_positions(
                        R.servos,
                        get_walk_positions(p2, R.gait.walk_direction,
                                           R.gait.turn_direction),
                        TRUE)]

\* The keyframe lists of wave, bow, shake and wiggle.
Rep3(seq) == seq \o seq \o seq

\* wave with a first keyframe of 0.1 s.
wave_seq_short ==
  << <<Pos([R1 |-> 90, R3 |-> 45]), 100>>, <<Pos([R1 |-> 60]), 200>>,
     <<Pos([R1 |-> 120]), 200>>, <<Pos([R1 |-> 60]), 200>>,
     <<Pos([R1 |-> 120]), 200>>, <<Pos([R1 |-> 90, R3 |-> stand_knee]), 300>> >>

wave_seq ==
  << <<Pos([R1 |-> 90, R3 |-> 45]), 300>>, <<Pos([R1 |-> 60]), 200>>,
     <<Pos([R1 |-> 120]), 200>>, <<Pos([R1 |-> 60]), 200>>,
     <<Pos([R1 |-> 120]), 200>>, <<Pos([R1 |-> 90, R3 |-> stand_knee]), 300>> >>

bow_seq ==
  << <<Pos([R3 |-> 120, L3 |-> 120, R4 |-> 160, L4 |-> 160]), 500>>,
     <<None, 500>>, <<get_pose("stand"), 500>> >>

shake_seq ==
  Rep3(<< <<Pos([R1 |-> 70, R2 |-> 70, L1 |-> 110, L2 |-> 110]), 150>>,
          <<Pos([R1 |-> 110, R2 |-> 110, L1 |-> 70, L2 |-> 70]), 150>> >>)
    \o << <<get_pose("stand"), 300>> >>

wiggle_seq ==
  Rep3(<< <<Pos([R2 |-> 70, L2 |-> 110]), 100>>,
          <<Pos([R2 |-> 110, L2 |-> 70]), 100>> >>)
    \o << <<Pos([R2 |-> 90, L2 |-> 90]), 200>> >>

GESTURES == {"wave", "bow", "shake", "wiggle"}

gesture_seq(name) ==
  CASE name = "wave" -> wave_seq
    [] name = "bow" -> bow_seq
    [] name = "shake" -> shake_seq
    [] name = "wiggle" -> wiggle_seq

\* _next that leaves is_moving set when the queue is empty.
_next_never_ends(R) ==
  IF R.gait.movement_queue = << >>
    THEN [R EXCEPT !.calls = Append(@, "_next")]
    ELSE LET cm == Head(R.gait.movement_queue)
         IN  [R EXCEPT !.calls = Append(@, "_next"),
                       !.gait.current_movement = cm,
                       !.gait.movement_queue = Tail(R.gait.movement_queue),
                       !.servos = IF cm[1] # None
                                    THEN set_positions(R.servos, cm[1], TRUE)
                                    ELSE R.servos,
                       !.gait.movement_elapsed = 0,
                       !.gait.movement_duration = cm[2]]

\* _next that takes the keyframe at the end of the queue.
_next_lifo(R) ==
  IF R.gait.movement_queue = << >>
    THEN [R EXCEPT !.calls = Append(@, "_next"), !.gait.is_moving = FALSE]
    ELSE LET q == R.gait.movement_queue
             cm == q[Len(q)]
         IN  [R EXCEPT !.calls = Append(@, "_next"),
                       !.gait.current_movement = cm,
                       !.gait.movement_queue = SubSeq(q, 1, Len(q) - 1),
                       !.servos = IF cm[1] # None
                                    THEN set_positions(R.servos, cm[1], TRUE)
                                    ELSE R.servos,
                       !.gait.movement_elapsed = 0,
                       !.gait.movement_duration = cm[2]]

\* _next that takes a keyframe without angles for the standing pose.
_next_none_stands(R) ==
  IF R.gait.movement_queue = << >>
    THEN [R EXCEPT !.calls = Append(@, "_next"), !.gait.is_moving = FALSE]
    ELSE LET cm == Head(R.gait.movement_queue)
             pos == IF cm[1] # None THEN cm[1] ELSE get_pose("stand")
             dur == cm[2]
         IN  [R EXCEPT !.calls = Append(@, "_next"),
                       !.gait.current_movement = cm,
                       !.gait.movement_queue = Tail(R.gait.movement_queue),
                       !.servos = set_positions(R.servos, pos, TRUE),
                       !.gait.movement_elapsed = 0,
                       !.gait.movement_duration = dur]

\* GaitController._next.
_next(R) ==
  IF R.gait.movement_queue = << >>
    THEN [R EXCEPT !.calls = Append(@, "_next"), !.gait.is_moving = FALSE]
    ELSE LET cm == Head(R.gait.movement_queue)
             pos == cm[1]
             dur == cm[2]
         IN  [R EXCEPT !.calls = Append(@, "_next"),
                       !.gait.current_movement = cm,
                       !.gait.movement_queue = Tail(R.gait.movement_queue),
                       !.servos = IF pos # None
                                    THEN set_positions(R.servos, pos, TRUE)
                                    ELSE R.servos,
                       !.gait.movement_elapsed = 0,
                       !.gait.movement_duration = dur]

\* _queue that adds the list to the end of the queue already there.
_queue_extends(R, seq) ==
  _next([R EXCEPT !.gait.movement_queue = @ \o seq, !.gait.is_moving = TRUE])

\* GaitController._queue.
_queue(R, seq) ==
  _next([R EXCEPT !.gait.movement_queue = seq, !.gait.is_moving = TRUE])

\* GaitController.update that ticks the sequence while walking too.
gait_update_both(R, dt) ==
  LET W == IF R.gait.is_walking THEN update_walk(R, dt) ELSE R
  IN  IF W.gait.is_moving /\ W.gait.movement_elapsed >= W.gait.movement_duration
        THEN _next(W)
        ELSE W

\* GaitController.update that takes the next keyframe at every call.
gait_update_no_wait(R, dt) ==
  IF R.gait.is_walking
    THEN update_walk(R, dt)
    ELSE IF R.gait.is_moving THEN _next(R) ELSE R

\* GaitController.update, when update_walk does not raise.
gait_update(R, dt) ==
  IF R.gait.is_walking
    THEN update_walk(R, dt)
    ELSE IF R.gait.is_moving
           THEN IF R.gait.movement_elapsed >= R.gait.movement_duration
                  THEN _next(R)
                  ELSE R
           ELSE R

\* stop_all that also sends the joints to the standing pose.
stop_all_stands(R) ==
  set_pose([R EXCEPT !.gait.is_walking = FALSE, !.gait.is_moving = FALSE,
                     !.gait.movement_queue = << >>], "stand", FALSE)

\* GaitController.stop_all.
stop_all(R) ==
  [R EXCEPT !.gait.is_walking = FALSE, !.gait.is_moving = FALSE,
            !.gait.movement_queue = << >>]

\* The calls Robot.update makes after reading the clock, in order, when
\* gait.update does not raise: gait.update(dt), then servos.update_all(dt).
robot_update(R, dt) ==
  LET G == gait_update(R, dt)
  IN  [G EXCEPT !.calls = Append(@, "update_all"),
                !.servos = update_all(G.servos, dt).servos,
                !.moving = update_all(G.servos, dt).moving]

(***************************************************************************)
(* UDPServer (udp_server.py).  The clock time.ticks_ms() counts            *)
(* milliseconds modulo TICKS_PERIOD; the period of the model is eight       *)
(* timeouts long, that of the board 2^30 ms.                                *)
(***************************************************************************)
timeout_ms == 2000

TICKS_PERIOD == 8 * timeout_ms

\* time.ticks_diff(a, b): the signed distance from b to a on the clock's
\* circle.
ticks_diff(a, b) ==
  ((a - b + TICKS_PERIOD \div 2) % TICKS_PERIOD) - TICKS_PERIOD \div 2

\* No datagram is waiting: recvfrom raises OSError.
NoData == "<no data>"

\* No client has been heard yet: client_addr is None.
NoAddr == "<None>"

WALK_COMMANDS ==
  [FWD |-> <<1, 0>>, FORWARD |-> <<1, 0>>, BACK |-> <<-1, 0>>,
   BACKWARD |-> <<-1, 0>>, LEFT |-> <<1, -1>>, RIGHT |-> <<1, 1>>]

POSE_COMMANDS == [STAND |-> "stand", SIT |-> "sit", CROUCH |-> "crouch"]

GESTURE_COMMANDS ==
  [WAVE |-> "wave", BOW |-> "bow", SHAKE |-> "shake", WIGGLE |-> "wiggle"]

\* UDPServer.process_command on a command word without arguments: the
\* walk commands call Robot.forward/backward/left/right with speed 1.0,
\* STOP and HALT call Robot.halt, which is gait.stop_walk; the eye
\* commands, STATUS, PING, HELP and unknown words leave the joints alone.
process_command(R, cmd) ==
  CASE cmd \in DOMAIN WALK_COMMANDS
         -> start_walk(R, WALK_COMMANDS[cmd][1], WALK_COMMANDS[cmd][2], 1)
    [] cmd \in {"STOP", "HALT"} -> stop_walk(R)
    [] cmd \in DOMAIN POSE_COMMANDS -> set_pose(R, POSE_COMMANDS[cmd], TRUE)
    [] cmd \in DOMAIN GESTURE_COMMANDS
         -> _queue(R, gesture_seq(GESTURE_COMMANDS[cmd]))
    [] cmd = "CENTER" -> [R EXCEPT !.servos = center_all(R.servos, TRUE)]
    [] OTHER -> R

\* UDPServer.__init__, with the clock at `now`.
udp_init(now) ==
  [running |-> FALSE, now |-> now, last_heartbeat |-> 0,
   client_addr |-> NoAddr, polled |-> FALSE, silent |-> 0, halts |-> 0]

\* UDPServer.start.
udp_start(U) == [U EXCEPT !.running = TRUE]

\* The part of UDPServer.update that receives: a datagram sets client_addr
\* and last_heartbeat = time.ticks_ms() and is processed.
udp_receive(X, data) ==
  IF data = NoData
    THEN X
    ELSE [udp |-> [X.udp EXCEPT !.client_addr = "client",
                                !.last_heartbeat = X.udp.now,
                                !.silent = 0, !.halts = 0],
          R |-> process_command(X.R, data),
          halted |-> FALSE]

\* The safety timeout of UDPServer.update.
udp_timeout(X) ==
  IF /\ X.udp.client_addr # NoAddr
     /\ X.udp.last_heartbeat # 0
     /\ ticks_diff(X.udp.now, X.udp.last_heartbeat) > timeout_ms
    THEN [udp |-> [X.udp EXCEPT !.last_heartbeat = 0,
                                !.halts = Min(@ + 1, 2)],
          R |-> stop_walk(X.R),
          halted |-> TRUE]
    ELSE X

\* UDPServer.update.
udp_update(U, R, data) ==
  IF ~U.running
    THEN [udp |-> U, R |-> R, halted |-> FALSE]
    ELSE udp_timeout(udp_receive([udp |-> U, R |-> R, halted |-> FALSE], data))

(***************************************************************************)
(* The state machine.  One action per operation of the motion API; the     *)
(* driver loop of main.py is Tick (the clock advances 100 ms) and Update   *)
(* (Robot.update).                                                         *)
(***************************************************************************)

\* The most 100 ms clock steps between two calls of Robot.update.
MaxTicks == 1
\* movement_elapsed is not counted beyond this many clock steps (the
\* longest keyframe lasts 5).
MaxElapsedTicks == 6
\* The most commands in one run (Tick and Update are not counted).
MaxCmds == 2
\* Update is not taken when it would carry |walk_phase| beyond this.
MaxPhase == 20

\* start_walk arguments <<direction, turn, speed>>.
WALK_ARGS == {<<1, 0, 1>>, <<-1, 1, -1>>, <<1, 0, 0>>, <<1, 0, 16>>}
\* set_pose arguments <<name, immediate>>; "flop" names no pose.
POSE_ARGS == {<<"sit", TRUE>>, <<"flop", FALSE>>}
\* set_servo arguments <<name, angle, immediate>>; "ZZ" names no servo.
SERVO_ARGS == {<<"R1", Deg(-30), FALSE>>, <<"ZZ", Deg(45), TRUE>>}
\* set_leg arguments <<leg_name, femur_angle, knee_angle, immediate>>.
LEG_ARGS == {<<"BR", Deg(200), Deg(100), TRUE>>}
\* center_all arguments: immediate.
CENTER_ARGS == BOOLEAN
\* set_positions arguments <<positions, immediate>>; "ZZ" names no servo.
POSITIONS_ARGS == {<<[R2 |-> Deg(120), ZZ |-> Deg(10)], FALSE>>}

Sum(seq) ==
  LET RECURSIVE S(_)
      S(i) == IF i = 0 THEN 0 ELSE seq[i][2] + S(i - 1)
  IN  S(Len(seq))

\* The clock of a gesture is not counted beyond the time by which the
\* gesture has ended when update is called at least every 100 * MaxTicks ms.
GestureClockCap(name) ==
  Sum(gesture_seq(name)) + (Len(gesture_seq(name)) + 1) * 100 * MaxTicks

VARIABLES
  servos,        \* ServoController.servos: name -> Servo
  gait,          \* the GaitController
  since_update,  \* time.ticks_diff(time.ticks_ms(), Robot.last_update)
  err,           \* "none", or the exception that ended the driver loop
  last,          \* the operation of the last step, with its arguments
  cmds,          \* how many commands were issued
  gesture,       \* the last gesture started: its name; whether it started
                 \* with the robot not walking and no command was issued
                 \* since (clean) and, if so, for how long it has been
                 \* active (elapsed); whether start_walk was called while
                 \* it was in progress (preempted)
  udp            \* the UDPServer and the clock it reads (now); whether it
                 \* was updated since the clock last advanced (polled), the
                 \* time since the last datagram was received (silent) and
                 \* how often the timeout has called halt since (halts)

vars == <<servos, gait, since_update, err, last, cmds, gesture, udp>>

R0 == [servos |-> servos, gait |-> gait, calls |-> << >>, moving |-> FALSE]

Apply(R) == servos' = R.servos /\ gait' = R.gait

NoGesture ==
  [name |-> "none", elapsed |-> 0, clean |-> FALSE, preempted |-> FALSE]

\* The robot after construction.
InitRobot ==
  /\ servos = controller_init
  /\ gait = gait_init
  /\ since_update = 0
  /\ err = "none"
  /\ last = [op |-> "init"]
  /\ cmds = 0
  /\ gesture = NoGesture

\* The robot driven through its API, the server not started.
Init ==
  /\ InitRobot
  /\ udp = udp_init(0)

\* A command: counted, and it disturbs the gesture in progress.
Command ==
  /\ err = "none"
  /\ cmds < MaxCmds
  /\ cmds' = cmds + 1
  /\ UNCHANGED <<since_update, err, udp>>

Disturb == gesture' = [gesture EXCEPT !.elapsed = 0, !.clean = FALSE]

\* The clock advances by 100 ms.
Tick ==
  /\ err = "none"
  /\ since_update < 100 * MaxTicks
  /\ since_update' = since_update + 100
  /\ gait' = IF gait.is_moving
                THEN [gait EXCEPT
                        !.movement_elapsed = Min(@ + 100, 100 * MaxElapsedTicks)]
                ELSE gait
  /\ gesture' = IF gesture.clean /\ gait.is_moving
                  THEN [gesture EXCEPT
                          !.elapsed = Min(@ + 100, GestureClockCap(gesture.name))]
                  ELSE gesture
  /\ last' = [op |-> "tick"]
  /\ UNCHANGED <<servos, err, cmds, udp>>

\* The driver loop is held up: the clock advances by 0.4 s between two
\* calls of Robot.update.
PAUSE_MS == 4 * 100

Pause ==
  /\ err = "none"
  /\ since_update = 0
  /\ since_update' = PAUSE_MS
  /\ gait' = IF gait.is_moving
                THEN [gait EXCEPT
                        !.movement_elapsed =
                           Min(@ + PAUSE_MS, 100 * MaxElapsedTicks)]
                ELSE gait
  /\ gesture' = IF gesture.clean /\ gait.is_moving
                  THEN [gesture EXCEPT
                          !.elapsed =
                             Min(@ + PAUSE_MS, GestureClockCap(gesture.name))]
                  ELSE gesture
  /\ last' = [op |-> "pause"]
  /\ UNCHANGED <<servos, err, cmds, udp>>

\* Robot.update: dt from the clock, last_update = now, gait.update(dt),
\* servos.update_all(dt).  An exception of gait.update leaves the call
\* there and ends the driver loop of main.py, which catches none.
Update ==
  /\ err = "none"
  /\ since_update' = 0
  /\ IF update_walk_raises(gait)
       THEN /\ err' = "ZeroDivisionError"
            /\ last' = [op |-> "update", dt |-> since_update,
                        calls |-> <<"update_walk">>, moving |-> FALSE]
            /\ UNCHANGED <<servos, gait>>
       ELSE LET R == robot_update(R0, since_update)
            IN  /\ Abs(R.gait.walk_phase) <= MaxPhase
                /\ Apply(R)
                /\ last' = [op |-> "update", dt |-> since_update,
                            calls |-> R.calls, moving |-> R.moving]
                /\ err' = err
  /\ UNCHANGED <<cmds, gesture, udp>>

StartWalkFrom(args) ==
  \E a \in args :
    /\ Command
    /\ Apply(start_walk(R0, a[1], a[2], a[3]))
    /\ last' = [op |-> "start_walk", direction |-> a[1], turn |-> a[2],
                speed |-> a[3]]
    /\ gesture' = [gesture EXCEPT !.elapsed = 0, !.clean = FALSE,
                                  !.preempted = @ \/ gait.is_moving]

StartWalk == StartWalkFrom(WALK_ARGS)

StopWalk ==
  /\ Command
  /\ Apply(stop_walk(R0))
  /\ last' = [op |-> "stop_walk"]
  /\ Disturb

SetPose ==
  \E a \in POSE_ARGS :
    /\ Command
    /\ Apply(set_pose(R0, a[1], a[2]))
    /\ last' = [op |-> "set_pose", name |-> a[1], immediate |-> a[2]]
    /\ Disturb

Gesture(name) ==
  /\ Command
  /\ Apply(_queue(R0, gesture_seq(name)))
  /\ last' = [op |-> name]
  /\ gesture' = [name |-> name, elapsed |-> 0, clean |-> ~gait.is_walking,
                 preempted |-> FALSE]

Wave == Gesture("wave")
Bow == Gesture("bow")
Shake == Gesture("shake")
Wiggle == Gesture("wiggle")

StopAll ==
  /\ Command
  /\ Apply(stop_all(R0))
  /\ last' = [op |-> "stop_all"]
  /\ Disturb

SetServoFrom(args) ==
  \E a \in args :
    /\ Command
    /\ servos' = set_servo(servos, a[1], a[2], a[3])
    /\ last' = [op |-> "set_servo", name |-> a[1], angle |-> a[2],
                immediate |-> a[3]]
    /\ Disturb
    /\ UNCHANGED gait

SetServo == SetServoFrom(SERVO_ARGS)

SetLegFrom(args) ==
  \E a \in args :
    /\ Command
    /\ servos' = set_leg(servos, a[1], a[2], a[3], a[4])
    /\ last' = [op |-> "set_leg", name |-> a[1], femur_angle |-> a[2],
                knee_angle |-> a[3], immediate |-> a[4]]
    /\ Disturb
    /\ UNCHANGED gait

SetLeg == SetLegFrom(LEG_ARGS)

SetPositionsFrom(args) ==
  \E a \in args :
    /\ Command
    /\ servos' = set_positions(servos, a[1], a[2])
    /\ last' = [op |-> "set_positions", positions |-> a[1], immediate |-> a[2]]
    /\ Disturb
    /\ UNCHANGED gait

SetPositions == SetPositionsFrom(POSITIONS_ARGS)

CenterAll ==
  \E immediate \in CENTER_ARGS :
    /\ Command
    /\ servos' = center_all(servos, immediate)
    /\ last' = [op |-> "center_all", immediate |-> immediate]
    /\ Disturb
    /\ UNCHANGED gait

DetachAll ==
  /\ Command
  /\ servos' = detach_all(servos)
  /\ last' = [op |-> "detach_all"]
  /\ Disturb
  /\ UNCHANGED gait

AttachAll ==
  /\ Command
  /\ servos' = attach_all(servos)
  /\ last' = [op |-> "attach_all"]
  /\ Disturb
  /\ UNCHANGED gait

Next ==
  \/ Tick
  \/ Update
  \/ StartWalk
  \/ StopWalk
  \/ SetPose
  \/ Wave
  \/ Bow
  \/ Shake
  \/ Wiggle
  \/ StopAll
  \/ SetServo
  \/ SetLeg
  \/ SetPositions
  \/ CenterAll
  \/ DetachAll
  \/ AttachAll

Spec == Init /\ [][Next]_vars

\* The gait controller alone: walking, gestures and the driver loop.
SEQ_WALK_ARGS == {<<1, 0, 1>>}

SeqStartWalk == StartWalkFrom(SEQ_WALK_ARGS)

SeqNext ==
  \/ Tick
  \/ Update
  \/ SeqStartWalk
  \/ StopWalk
  \/ Wave
  \/ Bow
  \/ Shake
  \/ Wiggle
  \/ StopAll

SeqSpec == Init /\ [][SeqNext]_vars

\* The driver loop of main.py runs for ever: the clock keeps advancing, and
\* once it has advanced Robot.update is called again.  A step that resets
\* since_update from a positive value is an Update step, the only action
\* that lowers it, and UpdateDue is enabled exactly when such a step is.
UpdateDue ==
  /\ err = "none"
  /\ IF gait.is_walking /\ ~update_walk_raises(gait)
       THEN Abs(next_walk_phase(gait, since_update)) <= MaxPhase
       ELSE TRUE
  /\ since_update' = 0

\* The robot that never walks: the gestures, stop_walk, stop_all and the
\* driver loop running for ever.
GestureNext ==
  \/ Tick
  \/ Update
  \/ StopWalk
  \/ Wave
  \/ Bow
  \/ Shake
  \/ Wiggle
  \/ StopAll

GestureSpec ==
  Init /\ [][GestureNext]_vars /\ WF_vars(Tick) /\ WF_since_update(UpdateDue)

\* The gestures with a driver loop that is at times held up for 0.4 s,
\* longer than the two shortest keyframes together.
TimingNext ==
  \/ Tick
  \/ Pause
  \/ Update
  \/ Wave
  \/ Bow
  \/ Shake
  \/ Wiggle

TimingSpec == Init /\ [][TimingNext]_vars

\* Walking alone: Robot.forward, backward, left and right at speed 1 and
\* backward at speed 2, halt, and the driver loop with updates 0.1 s or
\* 0.4 s apart.
GAIT_WALK_ARGS ==
  {<<1, 0, 1>>, <<-1, 0, 1>>, <<1, -1, 1>>, <<1, 1, 1>>, <<-1, 0, 2>>}

WalkStart == StartWalkFrom(GAIT_WALK_ARGS)

WalkNext ==
  \/ Tick
  \/ Pause
  \/ Update
  \/ WalkStart
  \/ StopWalk

WalkSpec == Init /\ [][WalkNext]_vars

\* Poses set while the robot stands or walks: Robot.stand and Robot.sit
\* (immediate), a crouch without immediate, and two names that are no pose.
POSE_SET_ARGS ==
  {<<"stand", TRUE>>, <<"sit", TRUE>>, <<"crouch", FALSE>>, <<"flop", TRUE>>,
   <<"", FALSE>>}

PoseSetPose ==
  \E a \in POSE_SET_ARGS :
    /\ Command
    /\ Apply(set_pose(R0, a[1], a[2]))
    /\ last' = [op |-> "set_pose", name |-> a[1], immediate |-> a[2]]
    /\ Disturb

PoseNext ==
  \/ Tick
  \/ Update
  \/ SeqStartWalk
  \/ PoseSetPose

PoseSpec == Init /\ [][PoseNext]_vars

\* A keyframe list with a keyframe of duration 0 in the middle, handed to
\* _queue as wave, bow, shake and wiggle hand theirs.
ZERO_SEQ ==
  << <<Pos([R1 |-> 60]), 100>>, <<Pos([R1 |-> 120]), 0>>,
     <<Pos([R1 |-> 90]), 100>> >>

QueueZero ==
  /\ Command
  /\ Apply(_queue(R0, ZERO_SEQ))
  /\ last' = [op |-> "_queue"]
  /\ gesture' = NoGesture

ZeroNext ==
  \/ Tick
  \/ Update
  \/ QueueZero
  \/ StopWalk

ZeroSpec == Init /\ [][ZeroNext]_vars

\* The servo controller alone, with more set_servo arguments.
BANK_SERVO_ARGS ==
  ({"L3"} \X {Deg(-30), Deg(45), Deg(270)} \X BOOLEAN)
    \cup {<<"R1", Deg(-30), FALSE>>, <<"R1", Deg(270), TRUE>>,
          <<"ZZ", Deg(45), TRUE>>}
BANK_LEG_ARGS ==
  {<<"BR", Deg(200), Deg(100), TRUE>>, <<"FL", Deg(60), Deg(-1), FALSE>>,
   <<"XX", Deg(10), Deg(10), TRUE>>}

BANK_POSITIONS_ARGS ==
  {<<[L3 |-> Deg(45), ZZ |-> Deg(10)], TRUE>>,
   <<[QQ |-> Deg(30), L3 |-> Deg(270)], FALSE>>,
   <<[ZZ |-> Deg(10)], TRUE>>}

BankSetServo == SetServoFrom(BANK_SERVO_ARGS)
BankSetLeg == SetLegFrom(BANK_LEG_ARGS)
BankSetPositions == SetPositionsFrom(BANK_POSITIONS_ARGS)

BankNext ==
  \/ Tick
  \/ Update
  \/ BankSetServo
  \/ BankSetLeg
  \/ BankSetPositions
  \/ CenterAll
  \/ DetachAll
  \/ AttachAll

BankSpec == Init /\ [][BankNext]_vars

\* The output of the joints: set_servo for an inverted and a non-inverted
\* joint, with and without immediate, detach_all, attach_all and the driver
\* loop.
DUTY_SERVO_ARGS ==
  {<<"L3", Deg(45), TRUE>>, <<"R1", Deg(270), TRUE>>, <<"L1", Deg(117), FALSE>>}

DutySetServo == SetServoFrom(DUTY_SERVO_ARGS)

DutyNext ==
  \/ Tick
  \/ Update
  \/ DutySetServo
  \/ DetachAll
  \/ AttachAll

DutySpec == Init /\ [][DutyNext]_vars

\* Targets set by set_servo and center_all, and the driver loop running
\* for ever.
ServoLiveNext ==
  \/ Tick
  \/ Update
  \/ BankSetServo
  \/ CenterAll

ServoLiveSpec ==
  Init /\ [][ServoLiveNext]_vars /\ WF_vars(Tick) /\ WF_since_update(UpdateDue)

\* Walking and stopping with the driver loop running for ever.
StandNext ==
  \/ Tick
  \/ Update
  \/ WalkStart
  \/ StopWalk

StandSpec ==
  Init /\ [][StandNext]_vars /\ WF_vars(Tick) /\ WF_since_update(UpdateDue)

\* The loop of main.py with the server: server.update(), bot.update(), and
\* the time of one pass, in which the clock advances by LOOP_MS.
LOOP_MS == 5 * 100

\* The datagrams a client sends.
UDP_DATAGRAMS == {"FWD", "STOP", "PING"}

\* The clock values at which the server may be started.
START_TICKS == {k * LOOP_MS : k \in 1..(TICKS_PERIOD \div LOOP_MS - 1)}

UdpInit ==
  /\ InitRobot
  /\ \E now \in START_TICKS : udp = udp_start(udp_init(now))

\* The gesture record after the command word cmd.
gesture_after(cmd) ==
  CASE cmd \in DOMAIN WALK_COMMANDS
         -> [gesture EXCEPT !.elapsed = 0, !.clean = FALSE,
                            !.preempted = @ \/ gait.is_moving]
    [] cmd \in DOMAIN GESTURE_COMMANDS
         -> [name |-> GESTURE_COMMANDS[cmd], elapsed |-> 0,
             clean |-> ~gait.is_walking, preempted |-> FALSE]
    [] cmd \in {"STOP", "HALT", "CENTER"} \cup DOMAIN POSE_COMMANDS
         -> [gesture EXCEPT !.elapsed = 0, !.clean = FALSE]
    [] OTHER -> gesture

\* The words that command the robot's joints.
JOINT_COMMANDS ==
  DOMAIN WALK_COMMANDS \cup DOMAIN POSE_COMMANDS \cup DOMAIN GESTURE_COMMANDS
    \cup {"STOP", "HALT", "CENTER"}

\* One call of UDPServer.update, with a datagram waiting or none.
UdpUpdate ==
  \E data \in UDP_DATAGRAMS \cup {NoData} :
    LET X == udp_update(udp, R0, data)
        counted == data \in JOINT_COMMANDS
    IN  /\ err = "none"
        /\ udp.running
        /\ ~udp.polled
        /\ counted => cmds < MaxCmds
        /\ cmds' = IF counted THEN cmds + 1 ELSE cmds
        /\ Apply(X.R)
        /\ udp' = [X.udp EXCEPT !.polled = TRUE]
        /\ gesture' = IF X.halted
                        THEN [gesture_after(data) EXCEPT !.elapsed = 0,
                                                         !.clean = FALSE]
                        ELSE gesture_after(data)
        /\ last' = [op |-> "udp_update", data |-> data, halted |-> X.halted]
        /\ UNCHANGED <<since_update, err>>

\* One pass of the loop is over: the clock has advanced by LOOP_MS.
UdpTick ==
  /\ err = "none"
  /\ udp.running
  /\ udp.polled
  /\ since_update = 0
  /\ since_update' = LOOP_MS
  /\ udp' = [udp EXCEPT
               !.now = (@ + LOOP_MS) % TICKS_PERIOD,
               !.polled = FALSE,
               !.silent = IF udp.client_addr = NoAddr THEN 0
                          ELSE Min(@ + LOOP_MS, timeout_ms + 2 * LOOP_MS)]
  /\ gait' = IF gait.is_moving
                THEN [gait EXCEPT
                        !.movement_elapsed =
                           Min(@ + LOOP_MS, 100 * MaxElapsedTicks)]
                ELSE gait
  /\ gesture' = IF gesture.clean /\ gait.is_moving
                  THEN [gesture EXCEPT
                          !.elapsed =
                             Min(@ + LOOP_MS, GestureClockCap(gesture.name))]
                  ELSE gesture
  /\ last' = [op |-> "udp_tick"]
  /\ UNCHANGED <<servos, err, cmds>>

UdpNext ==
  \/ UdpUpdate
  \/ Update
  \/ UdpTick

UdpSpec == UdpInit /\ [][UdpNext]_vars

(***************************************************************************)
(* The claims.                                                             *)
(***************************************************************************)
InCalls(calls, f) == \E i \in 1..Len(calls) : calls[i] = f

Idle == ~gait.is_walking /\ ~gait.is_moving

AtPose(sv, pose) ==
  \A n \in ALL_SERVOS :
    sv[n].current_angle = pose[n] /\ sv[n].target_angle = pose[n]

\* C1: in every reachable state every joint's current_angle and
\* target_angle lie within [min_angle, max_angle].
C1_AnglesWithinLimits ==
  \A n \in ALL_SERVOS :
    /\ min_angle(n) <= servos[n].current_angle
    /\ servos[n].current_angle <= max_angle(n)
    /\ min_angle(n) <= servos[n].target_angle
    /\ servos[n].target_angle <= max_angle(n)

\* A request below min_angle was made of a servo and its target is min_angle.
C1_Witness ==
  /\ last.op = "set_servo"
  /\ last.name \in ALL_SERVOS
  /\ last.angle < min_angle(last.name)
  /\ servos[last.name].target_angle = min_angle(last.name)

\* C2: mode exclusivity: is_walking and is_moving are never both true.
C2_ModeExclusive == ~(gait.is_walking /\ gait.is_moving)

\* C3: start_walk during a gesture sequence abandons it: right after the
\* call the sequence is not active, and from then on (until another gesture
\* is started) no update applies a keyframe of it.
C3_WalkAbandonsSequence ==
  [][/\ (last'.op = "start_walk" /\ gait.is_moving) => ~gait'.is_moving
     /\ (gesture.preempted /\ gesture'.preempted /\ last'.op = "update")
          => (~InCalls(last'.calls, "_next")
              /\ gait'.movement_queue = gait.movement_queue)]_vars

\* C4: pose interrupt: right after set_pose(name) the controller is Idle
\* with an empty queue and every joint's current and target angle are the
\* pose's, and an update that follows moves no joint.
C4_PoseInterrupt ==
  [][/\ (last'.op = "set_pose" /\ last'.immediate)
          => /\ ~gait'.is_walking
             /\ ~gait'.is_moving
             /\ gait'.movement_queue = << >>
             /\ AtPose(servos', get_pose(last'.name))
     /\ (last.op = "set_pose" /\ last.immediate /\ last'.op = "update")
          => get_positions(servos') = get_positions(servos)]_vars

\* C5: no operation raises: the driver loop is never ended by an exception.
C5_NoError == err = "none"

\* C6 as stated: stop_walk while walking leaves is_walking false and every
\* femur's current angle at 90 and every knee's at 180.
C6_StopWalkSnaps ==
  [][(last'.op = "stop_walk" /\ gait.is_walking)
       => /\ ~gait'.is_walking
          /\ get_positions(servos') = get_pose("stand")]_vars

\* C6 as amended: stop_walk while walking leaves is_walking false, sets
\* every femur's target to 90 and every knee's to 180, and leaves every
\* current angle as it was before the call.
C6_StopWalkTargetsStand ==
  [][(last'.op = "stop_walk" /\ gait.is_walking)
       => /\ ~gait'.is_walking
          /\ get_targets(servos') = get_pose("stand")
          /\ get_positions(servos') = get_positions(servos)]_vars

\* stop_walk was called with the front right knee lifted by the gait.
C6_Witness ==
  /\ last.op = "stop_walk"
  /\ servos["R3"].current_angle = Deg(step_lift)
  /\ servos["R3"].target_angle = Deg(stand_knee)

\* C7: a gesture sequence ends on its own: whenever a sequence is active
\* and the robot is not walking, later the sequence is inactive (or the
\* robot walks); and in the update cycle in which the sequence ends the
\* joints change only as update_all changes them.
C7_SequenceTerminates ==
  /\ (gait.is_moving /\ ~gait.is_walking) ~> (~gait.is_moving \/ gait.is_walking)
  /\ [][(last'.op = "update" /\ gait.is_moving /\ ~gait'.is_moving)
          => servos' = update_all(servos, last'.dt).servos]_vars

\* An update found the queue empty and ended the sequence.
C7_Witness ==
  /\ last.op = "update"
  /\ InCalls(last.calls, "_next")
  /\ gesture.name # "none"
  /\ ~gait.is_moving
  /\ gait.current_movement = gesture_seq(gesture.name)[Len(gesture_seq(gesture.name))]

CleanWave == gesture.name = "wave" /\ gesture.clean

\* C8 as stated: the wave keyframes last 1.2 s in all, and after an update
\* 1.2 s or more after wave() (robot not walking, no other command) the
\* mode is Idle with R1 at 90 and R3 at 180.
C8_WaveLasts1200 ==
  (CleanWave /\ last.op = "update" /\ gesture.elapsed >= 1200)
    => /\ Sum(wave_seq) = 1200
       /\ Idle
       /\ servos["R1"].current_angle = Deg(90)
       /\ servos["R3"].current_angle = Deg(stand_knee)

\* C8 as amended: the wave keyframes last 1.4 s in all; after wave() (robot
\* not walking, no other command) the sequence is active for at least 1.4 s,
\* it has ended at the latest after an update 1.4 s + 6 G after wave(), G
\* the longest time between two updates, and once it has ended R1 is at 90
\* and R3 at 180.
C8_WaveLasts1400 ==
  /\ Sum(wave_seq) = 1400
  /\ CleanWave
       => /\ ~gait.is_moving
               => /\ gesture.elapsed >= 1400
                  /\ servos["R1"].current_angle = Deg(90)
                  /\ servos["R3"].current_angle = Deg(stand_knee)
                  /\ servos["R1"].target_angle = Deg(90)
                  /\ servos["R3"].target_angle = Deg(stand_knee)
          /\ (last.op = "update"
                /\ gesture.elapsed >= 1400 + Len(wave_seq) * 100 * MaxTicks)
               => ~gait.is_moving

\* A wave ended exactly 1.4 s after it was started.
C8_Witness ==
  /\ CleanWave
  /\ Idle
  /\ gesture.elapsed = 1400
  /\ gait.current_movement = wave_seq[Len(wave_seq)]

\* C9: update priority: walking runs update_walk alone; otherwise an active
\* sequence is ticked alone; otherwise the mode logic changes no target; and
\* in every case update_all runs, after the mode logic.
C9_UpdatePriority ==
  [][last'.op = "update"
       => /\ gait.is_walking
               => /\ last'.calls = <<"update_walk", "update_all">>
                  /\ gait'.movement_queue = gait.movement_queue
                  /\ gait'.is_moving = gait.is_moving
          /\ (~gait.is_walking /\ gait.is_moving)
               => /\ last'.calls \in {<<"update_all">>, <<"_next", "update_all">>}
                  /\ gait'.walk_phase = gait.walk_phase
          /\ (~gait.is_walking /\ ~gait.is_moving)
               => /\ last'.calls = <<"update_all">>
                  /\ get_targets(servos') = get_targets(servos)
                  /\ gait' = gait]_vars

\* C10: set_angle(angle, immediate): the target becomes the clamped angle;
\* with immediate the current angle becomes it too, without immediate the
\* current angle is what it was.
C10_SetAngle ==
  [][(last'.op = "set_servo" /\ last'.name \in ALL_SERVOS)
       => LET n == last'.name
              a == IF last'.angle < Deg(SERVO_LIMITS[n][1])
                     THEN Deg(SERVO_LIMITS[n][1])
                     ELSE IF last'.angle > Deg(SERVO_LIMITS[n][2])
                            THEN Deg(SERVO_LIMITS[n][2])
                            ELSE last'.angle
          IN  /\ servos'[n].target_angle = a
              /\ last'.immediate => servos'[n].current_angle = a
              /\ ~last'.immediate
                   => servos'[n].current_angle = servos[n].current_angle]_vars

\* A set_angle without immediate left the current angle away from the target.
C10_Witness ==
  /\ last.op = "set_servo"
  /\ last.name \in ALL_SERVOS
  /\ ~last.immediate
  /\ servos[last.name].target_angle = Deg(45)
  /\ servos[last.name].current_angle = Deg(180)

\* |current - target| of a joint, and whether it is below 0.5 degree.
Dist(sv, n) == Abs(sv[n].current_angle - sv[n].target_angle)
Settled(sv, n) == 2 * Dist(sv, n) < Deg(1)

\* C11: Servo.update(dt), as update_all applies it to every joint: a joint
\* within 0.5 degree of its target reports not-moving and is left as it
\* was; any other joint reports moving, keeps its target, and its current
\* angle moves toward the target by at most rate * dt (rate = SERVO_SPEED *
\* 360 * SPEED_MULTIPLIER degrees per second), never beyond the target.
C11_ServoUpdate ==
  [][last'.op = "update"
       => \A n \in ALL_SERVOS :
            LET old == servos[n].current_angle
                new == servos'[n].current_angle
                tgt == servos[n].target_angle
                dt == last'.dt
            IN  IF Settled(servos, n)
                  THEN /\ servos'[n] = servos[n]
                       /\ ~servo_update(n, servos[n], dt).moving
                  ELSE /\ servo_update(n, servos[n], dt).moving
                       /\ last'.moving
                       /\ servos'[n].target_angle = tgt
                       /\ 100 * Abs(new - old)
                            <= SERVO_SPEED[n] * 360 * SPEED_MULTIPLIER * dt
                       /\ (old <= tgt) => (old <= new /\ new <= tgt)
                       /\ (old >= tgt) => (tgt <= new /\ new <= old)]_vars

\* An update reported moving and brought the last joint under way exactly
\* to its target, with a step shorter than rate * dt.
C11_Witness ==
  /\ last.op = "update"
  /\ last.dt > 0
  /\ last.moving
  /\ \A n \in ALL_SERVOS : servos[n].current_angle = servos[n].target_angle
  /\ servos["L3"].current_angle = Deg(45)

\* The joints that are not within 0.5 degree of their target.
Unsettled(sv) == {n \in DOMAIN sv : ~Settled(sv, n)}
AllSettled == Unsettled(servos) = {}

\* C12: convergence: an update with dt > 0 brings every joint that is not
\* within 0.5 degree of its target strictly nearer to it and leaves the
\* others as they were; an update that finds every joint within 0.5 degree
\* reports not-moving; and once the targets are no longer changed every
\* joint is within 0.5 degree of its target after finitely many updates,
\* for good.
C12_Convergence ==
  /\ [][last'.op = "update"
          => /\ \A n \in ALL_SERVOS :
                  IF Settled(servos, n)
                    THEN servos'[n] = servos[n]
                    ELSE last'.dt > 0 => Dist(servos', n) < Dist(servos, n)
             /\ AllSettled => ~last'.moving]_vars
  /\ <>[]AllSettled

\* An update with dt > 0 reported moving and left a joint nearer to its
\* target, not yet within 0.5 degree of it.
C12_Witness ==
  /\ last.op = "update"
  /\ last.dt > 0
  /\ last.moving
  /\ servos["L3"].target_angle = Deg(45)
  /\ Dist(servos, "L3") < Deg(135)
  /\ ~Settled(servos, "L3")

\* C13: unknown identifiers are no-ops: set_servo with a name that is no
\* joint and set_leg with a name that is no leg leave every joint as it was
\* and raise nothing; set_positions skips the names that are no joint and
\* applies the others (target clamped; current too when immediate, else as
\* it was), and leaves the joints it does not name as they were.
C13_UnknownNames ==
  [][/\ (last'.op = "set_servo" /\ last'.name \notin ALL_SERVOS)
          => (servos' = servos /\ err' = "none")
     /\ (last'.op = "set_leg" /\ last'.name \notin DOMAIN LEGS)
          => (servos' = servos /\ err' = "none")
     /\ last'.op = "set_positions"
          => /\ err' = "none"
             /\ \A n \in ALL_SERVOS :
                  IF n \in DOMAIN last'.positions
                    THEN LET a == Max(Deg(SERVO_LIMITS[n][1]),
                                      Min(Deg(SERVO_LIMITS[n][2]),
                                          last'.positions[n]))
                         IN  /\ servos'[n].target_angle = a
                             /\ servos'[n].current_angle =
                                  IF last'.immediate
                                    THEN a
                                    ELSE servos[n].current_angle
                    ELSE servos'[n] = servos[n]]_vars

\* set_positions was called with a name that is no joint and a name that
\* is one, whose target is now the angle asked for, while a joint it did
\* not name is still on its way.
C13_Witness ==
  /\ last.op = "set_positions"
  /\ "ZZ" \in DOMAIN last.positions
  /\ "L3" \in DOMAIN last.positions
  /\ servos["L3"].target_angle = last.positions["L3"]
  /\ servos["R1"].current_angle # servos["R1"].target_angle

\* C14: empty operations are no-ops: stop_walk while the robot is not
\* walking, and stop_all with no sequence active, nothing queued and the
\* robot not walking, leave the mode flags, the queue and every joint's
\* current and target angle as they were.
C14_EmptyOpsNoOp ==
  [][/\ (last'.op = "stop_walk" /\ ~gait.is_walking)
          => /\ gait' = gait
             /\ get_positions(servos') = get_positions(servos)
             /\ get_targets(servos') = get_targets(servos)
     /\ (last'.op = "stop_all" /\ Idle /\ gait.movement_queue = << >>)
          => /\ gait' = gait
             /\ get_positions(servos') = get_positions(servos)
             /\ get_targets(servos') = get_targets(servos)]_vars

\* C15: walk parameters are clamped: in every reachable state the stored
\* speed multiplier is > 0 and the stored turn is within [-1, 1].
C15_WalkParamsClamped ==
  /\ gait.walk_speed > 0
  /\ -1 <= gait.turn_direction /\ gait.turn_direction <= 1

\* C16: the gait phase is within [0, 1) (0 to 15 sixteenths) in every
\* reachable state.
C16_PhaseInRange == 0 <= gait.walk_phase /\ gait.walk_phase < 16

\* The gait's positions at phase 0: femurs at the center, knees planted.
Phase0Positions ==
  Pos(PoseOf((step_fwd + step_back) \div 2, step_plant))

\* C17: full-period round trip: walking with direction 1, turn 0 and speed
\* 1, an update with dt = 0.4 s takes phase 0 to phase 0.5, and the next
\* update with dt = 0.4 s takes phase 0.5 back to phase 0 with every joint
\* at its phase-0 angle (femurs 90, knees 180).
C17_RoundTrip ==
  [][(/\ last'.op = "update"
      /\ last'.dt = 400
      /\ gait.is_walking
      /\ gait.walk_direction = 1
      /\ gait.turn_direction = 0
      /\ gait.walk_speed = 1)
       => /\ gait.walk_phase = 0 => gait'.walk_phase = 8
          /\ gait.walk_phase = 8
               => /\ gait'.walk_phase = 0
                  /\ get_positions(servos') = Phase0Positions
                  /\ Phase0Positions = Pos(PoseOf(90, 180))]_vars

\* The second update 0.4 s apart has brought the phase back to 0, the
\* joints having been away from their phase-0 angles in between.
C17_Witness ==
  /\ last.op = "update"
  /\ last.dt = 400
  /\ gait.is_walking
  /\ gait.walk_direction = 1
  /\ gait.turn_direction = 0
  /\ gait.walk_speed = 1
  /\ gait.walk_phase = 0
  /\ cmds = 1
  /\ get_positions(servos) = Phase0Positions

\* The phases, directions and turns the gait's positions are computed for.
PHASES == 0..15
DIRECTIONS == {-1, 0, 1}
TURNS == {-1, 0, 1}

\* The last step was an update that ran update_walk, which has written the
\* gait's positions to the joints.
WalkUpdated ==
  /\ last.op = "update"
  /\ err = "none"
  /\ InCalls(last.calls, "update_walk")

\* C18: gait symmetry at turn 0: for every phase p and direction, the
\* Group B (L1/L3, R2/R4) femur and knee angles at p are the Group A (R1/R3,
\* L2/L4) femur and knee angles at (p + 0.5) mod 1; and so are the angles
\* that a walking update has put on the joints.
C18_GaitSymmetry ==
  /\ \A p \in PHASES : \A d \in DIRECTIONS :
       LET b == get_walk_positions(p, d, 0)
           a == get_walk_positions((p + 8) % 16, d, 0)
       IN  /\ b["L1"] = a["R1"] /\ b["L1"] = a["L2"]
           /\ b["R2"] = a["R1"] /\ b["R2"] = a["L2"]
           /\ b["L3"] = a["R3"] /\ b["L3"] = a["L4"]
           /\ b["R4"] = a["R3"] /\ b["R4"] = a["L4"]
  /\ (WalkUpdated /\ gait.turn_direction = 0)
       => LET a == get_walk_positions((gait.walk_phase + 8) % 16,
                                      gait.walk_direction, 0)
          IN  /\ servos["L1"].current_angle = a["R1"]
              /\ servos["R2"].current_angle = a["L2"]
              /\ servos["L3"].current_angle = a["R3"]
              /\ servos["R4"].current_angle = a["L4"]

\* A walking update at turn 0 a quarter of a cycle in: Group A's femurs at
\* the end of their swing and its knees lifted, Group B's femurs at the
\* other end and its knees planted.
C18_Witness ==
  /\ WalkUpdated
  /\ gait.turn_direction = 0
  /\ gait.walk_direction = 1
  /\ gait.walk_phase = 4
  /\ servos["R1"].current_angle = Deg(step_fwd)
  /\ servos["L1"].current_angle = Deg(step_back)
  /\ servos["R3"].current_angle = Deg(step_lift)
  /\ servos["L3"].current_angle = Deg(step_plant)

\* C19: turn bias sign: for every phase and direction, changing turn from t
\* to t' changes each left femur (L1, L2) by +15 (t' - t) and each right
\* femur (R1, R2) by -15 (t' - t) and leaves the four knees as they are;
\* and the joints after a walking update differ from the turn-0 positions
\* by +15 turn on the left femurs and -15 turn on the right ones.
C19_TurnBias ==
  /\ \A p \in PHASES : \A d \in DIRECTIONS : \A t2 \in TURNS :
       LET t1 == gait.turn_direction
           x == get_walk_positions(p, d, t1)
           y == get_walk_positions(p, d, t2)
       IN  /\ \A n \in {"L1", "L2"} : y[n] - x[n] = Deg(15) * (t2 - t1)
           /\ \A n \in {"R1", "R2"} : y[n] - x[n] = -Deg(15) * (t2 - t1)
           /\ \A n \in KNEE_SERVOS : y[n] = x[n]
  /\ WalkUpdated
       => LET z == get_walk_positions(gait.walk_phase, gait.walk_direction, 0)
          IN  /\ \A n \in {"L1", "L2"} :
                   servos[n].current_angle - z[n] = Deg(15) * gait.turn_direction
              /\ \A n \in {"R1", "R2"} :
                   servos[n].current_angle - z[n] = -Deg(15) * gait.turn_direction
              /\ \A n \in KNEE_SERVOS : servos[n].current_angle = z[n]

\* A walking update with turn 1 (Robot.right): the left femur of Group B is
\* 30 degrees beyond the right femur of Group B.
C19_Witness ==
  /\ WalkUpdated
  /\ gait.turn_direction = 1
  /\ servos["L1"].current_angle - servos["R2"].current_angle = Deg(30)
  /\ servos["L2"].current_angle - servos["R1"].current_angle = Deg(30)

\* C20: at every phase one diagonal group has both knees exactly at the
\* plant angle: a group's knees are away from it only while the group's
\* sine is positive, and the two groups' sines are never positive at the
\* same phase; and after a walking update one group's knee joints are at
\* the plant angle.
C20_OneGroupPlanted ==
  /\ \A p \in PHASES :
       LET x == get_walk_positions(p, gait.walk_direction, gait.turn_direction)
           plant == Deg(step_plant)
       IN  /\ (x["R3"] = plant /\ x["L4"] = plant)
                \/ (x["L3"] = plant /\ x["R4"] = plant)
           /\ (x["R3"] # plant \/ x["L4"] # plant) => sin2pi(p) > 0
           /\ (x["L3"] # plant \/ x["R4"] # plant) => sin2pi(p + 8) > 0
           /\ ~(sin2pi(p) > 0 /\ sin2pi(p + 8) > 0)
  /\ WalkUpdated
       => \/ /\ servos["R3"].current_angle = Deg(step_plant)
             /\ servos["L4"].current_angle = Deg(step_plant)
          \/ /\ servos["L3"].current_angle = Deg(step_plant)
             /\ servos["R4"].current_angle = Deg(step_plant)

\* A walking update three quarters of a cycle in: Group B's knees lifted,
\* Group A's planted.
C20_Witness ==
  /\ WalkUpdated
  /\ gait.walk_phase % 16 = 12
  /\ servos["L3"].current_angle = Deg(step_lift)
  /\ servos["R4"].current_angle = Deg(step_lift)
  /\ servos["R3"].current_angle = Deg(step_plant)
  /\ servos["L4"].current_angle = Deg(step_plant)

\* C21: set_pose(name, immediate=True) makes get_positions return exactly
\* the pose's angle map for all 8 joints, whatever the joint angles were
\* before: for every pose name from every reachable state, and in every
\* set_pose step taken; stand is femurs 90 and knees 180, sit is femurs 90
\* and knees 45.
C21_SetPoseImmediate ==
  [][/\ \A name \in POSE_NAMES :
          get_positions(set_pose(R0, name, TRUE).servos) = get_pose(name)
     /\ get_positions(set_pose(R0, "stand", TRUE).servos) = Pos(PoseOf(90, 180))
     /\ get_positions(set_pose(R0, "sit", TRUE).servos) = Pos(PoseOf(90, 45))
     /\ (last'.op = "set_pose" /\ last'.immediate)
          => /\ get_positions(servos') = get_pose(last'.name)
             /\ last'.name = "stand"
                  => get_positions(servos') = Pos(PoseOf(90, 180))
             /\ last'.name = "sit"
                  => get_positions(servos') = Pos(PoseOf(90, 45))]_vars

\* set_pose("stand") was called a quarter of a cycle into a walk, where
\* Group A's knees were lifted; every femur is at 90 and every knee at 180.
C21_Witness ==
  /\ last.op = "set_pose"
  /\ last.name = "stand"
  /\ last.immediate
  /\ gait.is_walking
  /\ gait.walk_phase = 4
  /\ get_positions(servos) = Pos(PoseOf(90, 180))

\* q is what is left of seq when its first keyframes are taken away.
IsSuffix(q, seq) ==
  /\ Len(q) <= Len(seq)
  /\ q = SubSeq(seq, Len(seq) - Len(q) + 1, Len(seq))

\* C22: starting a gesture replaces whatever queue was there: the queue is
\* the new list without its first keyframe, the first keyframe is the
\* current one, its timer is restarted, the joints it names are at its
\* angles (current and target), and the sequence is active; from then on
\* the queue holds only keyframes of the gesture started last, and a
\* keyframe an update applies is one of that gesture.
C22_EnqueueReplaces ==
  [][/\ last'.op \in GESTURES
          => LET seq == gesture_seq(last'.op)
                 pos == Head(seq)[1]
             IN  /\ gait'.movement_queue = Tail(seq)
                 /\ gait'.current_movement = Head(seq)
                 /\ gait'.movement_elapsed = 0
                 /\ gait'.movement_duration = Head(seq)[2]
                 /\ gait'.is_moving
                 /\ \A n \in DOMAIN pos :
                      /\ servos'[n].current_angle = pos[n]
                      /\ servos'[n].target_angle = pos[n]
     /\ gesture'.name # "none"
          => LET seq == gesture_seq(gesture'.name)
             IN  /\ IsSuffix(gait'.movement_queue, seq)
                 /\ (last'.op = "update" /\ InCalls(last'.calls, "_next")
                       /\ gait'.is_moving)
                      => gait'.current_movement
                           = seq[Len(seq) - Len(gait'.movement_queue)]]_vars

\* wiggle was started while a wave was in progress, past its first
\* keyframe (R1 at 60): the queue is wiggle's.
C22_Witness ==
  /\ last.op = "wiggle"
  /\ servos["R1"].current_angle = Deg(60)
  /\ servos["R3"].current_angle = Deg(45)
  /\ gait.is_moving
  /\ gait.current_movement = Head(wiggle_seq)
  /\ gait.movement_queue = Tail(wiggle_seq)
  /\ servos["R2"].current_angle = Deg(70)

\* How many times f occurs in calls.
CountCalls(calls, f) == Cardinality({i \in 1..Len(calls) : calls[i] = f})

\* C23: keyframes are applied strictly in FIFO order: an update applies at
\* most one keyframe, the one at the head of the queue, which is the k-th
\* element of the gesture's list when k - 1 were applied before; it takes
\* exactly that keyframe from the queue and puts the joints it names at its
\* angles; an update that applies none leaves the queue and the current
\* keyframe as they were; and the update that finds the queue empty ends
\* the sequence mode.
C23_FifoOrder ==
  [][last'.op = "update"
       => /\ CountCalls(last'.calls, "_next") <= 1
          /\ IF InCalls(last'.calls, "_next")
               THEN IF gait.movement_queue = << >>
                      THEN /\ ~gait'.is_moving
                           /\ gait'.movement_queue = << >>
                           /\ gait'.current_movement = gait.current_movement
                      ELSE LET seq == gesture_seq(gesture.name)
                               k == Len(seq) - Len(gait.movement_queue) + 1
                               pos == seq[k][1]
                           IN  /\ gait'.current_movement = Head(gait.movement_queue)
                               /\ gait'.current_movement = seq[k]
                               /\ gait.current_movement = seq[k - 1]
                               /\ gait'.movement_queue = Tail(gait.movement_queue)
                               /\ gait'.is_moving
                               /\ pos # None
                                    => \A n \in DOMAIN pos :
                                         servos'[n].current_angle = pos[n]
               ELSE /\ gait'.movement_queue = gait.movement_queue
                    /\ gait'.current_movement = gait.current_movement
                    /\ gait'.is_moving = gait.is_moving]_vars

\* An update applied the third keyframe of wave (R1 to 120), the second
\* (R1 to 60) having been applied before it; three keyframes are left.
C23_Witness ==
  /\ last.op = "update"
  /\ InCalls(last.calls, "_next")
  /\ gesture.name = "wave"
  /\ gait.current_movement = wave_seq[3]
  /\ gait.movement_queue = SubSeq(wave_seq, 4, 6)
  /\ servos["R1"].current_angle = Deg(120)
  /\ servos["R3"].current_angle = Deg(45)

\* C24: detach and attach never alter a joint's current_angle or
\* target_angle (of any joint, in any reachable state, and in every
\* detach_all and attach_all step taken); detach puts 0 on the output and
\* attach puts the duty value of the joint's current angle on it.
C24_DetachAttachFrame ==
  [][/\ \A n \in ALL_SERVOS :
          /\ detach(servos[n]) = [servos[n] EXCEPT !.duty = 0]
          /\ attach(n, servos[n])
               = [servos[n] EXCEPT
                    !.duty = _angle_to_duty(n, servos[n].current_angle)]
     /\ last'.op = "detach_all"
          => /\ get_positions(servos') = get_positions(servos)
             /\ get_targets(servos') = get_targets(servos)
             /\ \A n \in ALL_SERVOS : servos'[n].duty = 0
     /\ last'.op = "attach_all"
          => /\ get_positions(servos') = get_positions(servos)
             /\ get_targets(servos') = get_targets(servos)
             /\ \A n \in ALL_SERVOS :
                  /\ servos'[n].duty = _angle_to_duty(n, servos[n].current_angle)
                  /\ servos'[n].duty # 0]_vars

\* attach_all was called with a joint on its way to its target: the output
\* has the duty value of the current angle, which is not the target's.
C24_Witness ==
  /\ last.op = "attach_all"
  /\ servos["L1"].target_angle = Deg(117)
  /\ servos["L1"].current_angle > Deg(90)
  /\ ~Settled(servos, "L1")
  /\ servos["L1"].duty = _angle_to_duty("L1", servos["L1"].current_angle)
  /\ servos["L1"].duty # _angle_to_duty("L1", servos["L1"].target_angle)

\* C25: physical output stays suspended between detach and the next
\* attach: a joint whose output is 0 (detached; an attached joint's duty is
\* at least that of a 500 microsecond pulse) still has output 0 after every
\* step other than attach_all.
C25_OutputSuspended ==
  [][\A n \in ALL_SERVOS :
       (servos[n].duty = 0 /\ last'.op # "attach_all")
         => servos'[n].duty = 0]_vars

\* C26: update_all(dt) steps every one of the 8 joints on every call: each
\* joint is afterwards what Servo.update makes of it, also when joints
\* before it reported moving; and it returns True exactly when at least one
\* joint was not within 0.5 degree of its target, False when all were.
C26_UpdateAllStepsAll ==
  [][last'.op = "update"
       => /\ \A n \in ALL_SERVOS :
               /\ servos'[n] = servo_update(n, servos[n], last'.dt).servo
               /\ (~Settled(servos, n) /\ last'.dt > 0)
                    => servos'[n].current_angle # servos[n].current_angle
          /\ last'.moving = (Unsettled(servos) # {})]_vars

\* An update found two joints of a leg away from their targets, moved both
\* and reported moving.
C26_Witness ==
  /\ last.op = "update"
  /\ last.dt > 0
  /\ last.moving
  /\ servos["L1"].target_angle = Deg(60)
  /\ servos["L1"].current_angle < Deg(90)
  /\ servos["L3"].target_angle = Deg(0)
  /\ servos["L3"].current_angle < Deg(90)

\* Turns beyond the range of Robot.left and Robot.right, for which the
\* gait's femur angles leave the limits.
WIDE_TURNS == {-6, 6}

\* The angle within the joint's limits that is nearest to angle.
Nearest(n, angle) ==
  IF angle < Deg(SERVO_LIMITS[n][1]) THEN Deg(SERVO_LIMITS[n][1])
  ELSE IF angle > Deg(SERVO_LIMITS[n][2]) THEN Deg(SERVO_LIMITS[n][2])
  ELSE angle

\* C27: while walking every update cycle writes the gait angles
\* immediately: after a walking update every joint's current_angle and
\* target_angle are the clamped synthesized angle for the new phase, and
\* the update_all of that cycle moved nothing and reported not-moving; the
\* same holds for the gait's positions at the phase reached and a wide turn
\* written to the joints of a reachable state.
C27_WalkWritesImmediately ==
  /\ WalkUpdated
       => LET x == get_walk_positions(gait.walk_phase, gait.walk_direction,
                                      gait.turn_direction)
          IN  /\ \A n \in ALL_SERVOS :
                   /\ servos[n].current_angle = Nearest(n, x[n])
                   /\ servos[n].target_angle = Nearest(n, x[n])
              /\ ~last.moving
              /\ update_all(servos, 100).servos = servos
  /\ \A t \in WIDE_TURNS :
       LET x == get_walk_positions(gait.walk_phase, 1, t)
           s == set_positions(servos, x, TRUE)
       IN  /\ \A n \in ALL_SERVOS :
                /\ s[n].current_angle = Nearest(n, x[n])
                /\ s[n].target_angle = Nearest(n, x[n])
           /\ ~update_all(s, 100).moving

\* A walking update three quarters of a cycle into a backward walk, after
\* two commands: Group B's knees are lifted, current and target alike, and
\* update_all reported not-moving.
C27_Witness ==
  /\ WalkUpdated
  /\ cmds = 2
  /\ gait.walk_phase = 12
  /\ gait.walk_direction = -1
  /\ ~last.moving
  /\ servos["L3"].current_angle = Deg(step_lift)
  /\ servos["L3"].target_angle = Deg(step_lift)

\* C28: a sequence enqueued while walking is held: as long as is_walking
\* is true an update pops no keyframe, applies none (it calls update_walk
\* alone before update_all, and the joints are at the gait's angles) and
\* leaves the sequence active, however long the current keyframe's time
\* has run out; an update that pops a keyframe finds the robot not walking.
C28_SequenceHeldWhileWalking ==
  [][last'.op = "update"
       => /\ (gait.is_walking /\ gait.is_moving)
               => /\ ~InCalls(last'.calls, "_next")
                  /\ gait'.movement_queue = gait.movement_queue
                  /\ gait'.current_movement = gait.current_movement
                  /\ gait'.is_moving
                  /\ get_positions(servos')
                       = get_walk_positions(gait'.walk_phase,
                                            gait'.walk_direction,
                                            gait'.turn_direction)
          /\ InCalls(last'.calls, "_next") => ~gait.is_walking]_vars

\* wiggle was started while walking; the time of its first keyframe (0.1 s)
\* has run out twice over, and after an update every keyframe but the first
\* is still in the queue and R2 is at the gait's angle, not the keyframe's.
C28_Witness ==
  /\ last.op = "update"
  /\ gait.is_walking
  /\ gait.is_moving
  /\ gesture.name = "wiggle"
  /\ gait.movement_elapsed >= 2 * gait.movement_duration
  /\ gait.movement_queue = Tail(wiggle_seq)
  /\ servos["R2"].current_angle # Deg(70)

\* Angles for which the pulse width is a whole number of microseconds:
\* every 9 degrees from 0 to 180.
DUTY_ANGLES == {Deg(9 * k) : k \in 0..20}

\* The angle after inversion, as the claim states it.
Inverted(n, angle) ==
  IF SERVO_INVERTED[n] THEN max_angle(n) - (angle - min_angle(n)) ELSE angle

\* duty is int(pulse / 20000 * 65535) for the pulse width that the angle
\* (a whole number of microseconds) maps to linearly.
IsDutyOf(duty, angle) ==
  LET pulse == MIN_US + angle \div (Deg(180) \div (MAX_US - MIN_US))
      period == 1000000 \div PWM_FREQ
  IN  /\ period * duty <= 65535 * pulse
      /\ 65535 * pulse < period * (duty + 1)

\* C29: the physical-output conversion: for every joint, with its
\* configured limits, the duty of an angle is int(pulse / 20000 * 65535)
\* with pulse the linear map onto 500..2500 microseconds of the angle, which
\* for an inverted joint is first replaced by max_angle - (angle -
\* min_angle); an inverted joint gives for an angle the duty a non-inverted
\* joint with the same limits gives for the mirrored angle; and the duty on
\* the output of an attached joint is that of its current angle.
C29_AngleToDuty ==
  /\ \A n \in ALL_SERVOS : \A a \in DUTY_ANGLES :
       /\ IsDutyOf(_angle_to_duty(n, a), Inverted(n, a))
       /\ SERVO_INVERTED[n]
            => \A m \in ALL_SERVOS :
                 (~SERVO_INVERTED[m] /\ SERVO_LIMITS[m] = SERVO_LIMITS[n])
                   => _angle_to_duty(n, a)
                        = _angle_to_duty(m, max_angle(m) - (a - min_angle(m)))
  /\ _angle_to_duty("R1", Deg(0)) = 1638
  /\ _angle_to_duty("R1", Deg(90)) = 4915
  /\ _angle_to_duty("R1", Deg(180)) = 8191
  /\ _angle_to_duty("L1", Deg(0)) = 8191
  /\ _angle_to_duty("L1", Deg(180)) = 1638
  /\ \A n \in ALL_SERVOS :
       servos[n].duty # 0
         => /\ servos[n].duty = _angle_to_duty(n, servos[n].current_angle)
            /\ servos[n].current_angle \in DUTY_ANGLES
                 => IsDutyOf(servos[n].duty, Inverted(n, servos[n].current_angle))

\* The inverted knee L3 was put at 45 degrees and the non-inverted femur R1
\* at 180: L3's output is the duty of 135 degrees (a 2000 microsecond
\* pulse), R1's that of a 2500 microsecond pulse.
C29_Witness ==
  /\ servos["L3"].current_angle = Deg(45)
  /\ servos["L3"].duty = 6553
  /\ servos["R1"].current_angle = Deg(180)
  /\ servos["R1"].duty = 8191

\* The joints a keyframe's position map names (none for None).
Named(pos) == IF pos = None THEN {} ELSE DOMAIN pos

\* C30: applying a keyframe or a partial position map changes only the
\* joints named in the map: a joint absent from the map of the first
\* keyframe of a gesture is, right after the gesture was started, as it
\* was; a joint absent from the map of the keyframe an update applies keeps
\* its target and has the current angle that update_all alone gives it; and
\* set_positions with a partial map, applied to the joints of any reachable
\* state, leaves the joints absent from the map as they were.
C30_OnlyNamedJoints ==
  [][/\ last'.op \in GESTURES
          => \A n \in ALL_SERVOS \ Named(Head(gesture_seq(last'.op))[1]) :
               servos'[n] = servos[n]
     /\ (last'.op = "update" /\ InCalls(last'.calls, "_next")
           /\ gait.movement_queue # << >>)
          => \A n \in ALL_SERVOS \ Named(Head(gait.movement_queue)[1]) :
               /\ servos'[n].target_angle = servos[n].target_angle
               /\ servos'[n].current_angle
                    = servo_update(n, servos[n], last'.dt).servo.current_angle
     /\ \A a \in POSITIONS_ARGS \cup BANK_POSITIONS_ARGS :
          \A n \in ALL_SERVOS \ DOMAIN a[1] :
            set_positions(servos, a[1], a[2])[n] = servos[n]]_vars

\* An update applied the second keyframe of wave, which names R1 alone: R3
\* is still where the first keyframe put it, and L3, which stop_walk had
\* sent towards 180 before the wave, is still on its way there.
C30_Witness ==
  /\ last.op = "update"
  /\ InCalls(last.calls, "_next")
  /\ gait.current_movement = wave_seq[2]
  /\ servos["R1"].current_angle = Deg(60)
  /\ servos["R3"].current_angle = Deg(45)
  /\ servos["L3"].target_angle = Deg(stand_knee)
  /\ servos["L3"].current_angle > Deg(90)
  /\ servos["L3"].current_angle < Deg(stand_knee)

\* C31: keyframe timing: with the robot not walking and a sequence active,
\* an update replaces the current keyframe (by its successor, or by the end
\* of the sequence) exactly when the time since the keyframe was applied is
\* >= its duration, so never before the duration has elapsed and always at
\* the first update at which it has; the successor's time starts at 0; and
\* one update advances the sequence by one keyframe at most, whatever the
\* elapsed time.
C31_KeyframeTiming ==
  [][(last'.op = "update" /\ gait.is_moving /\ ~gait.is_walking)
       => /\ InCalls(last'.calls, "_next")
               <=> gait.movement_elapsed >= gait.movement_duration
          /\ CountCalls(last'.calls, "_next") <= 1
          /\ gait.movement_elapsed < gait.movement_duration
               => /\ gait'.current_movement = gait.current_movement
                  /\ gait'.movement_queue = gait.movement_queue
                  /\ gait'.movement_elapsed = gait.movement_elapsed
          /\ (gait.movement_elapsed >= gait.movement_duration
                /\ gait.movement_queue # << >>)
               => /\ gait'.current_movement = Head(gait.movement_queue)
                  /\ Len(gait'.movement_queue) = Len(gait.movement_queue) - 1
                  /\ gait'.movement_elapsed = 0
                  /\ gait'.movement_duration = Head(gait.movement_queue)[2]
          /\ (gait.movement_elapsed >= gait.movement_duration
                /\ gait.movement_queue = << >>)
               => ~gait'.is_moving]_vars

\* An update 0.4 s after wiggle was started, four times the duration of
\* its first keyframe and twice that of the first two together: the second
\* keyframe is the current one, and five are left in the queue.
C31_Witness ==
  /\ last.op = "update"
  /\ last.dt = PAUSE_MS
  /\ InCalls(last.calls, "_next")
  /\ gesture.name = "wiggle"
  /\ gesture.clean
  /\ gesture.elapsed = PAUSE_MS
  /\ gait.current_movement = wiggle_seq[2]
  /\ Len(gait.movement_queue) = Len(wiggle_seq) - 2

C33_StopAllCancels ==
  [][/\ last'.op = "stop_all"
          => /\ gait'.movement_queue = << >>
             /\ ~gait'.is_moving
             /\ ~gait'.is_walking
             /\ servos' = servos
     /\ (last'.op = "update" /\ ~gait.is_walking /\ ~gait.is_moving)
          => /\ get_targets(servos') = get_targets(servos)
             /\ gait' = gait
             /\ ~InCalls(last'.calls, "_next")
             /\ ~InCalls(last'.calls, "update_walk")]_vars

\* An update after stop_all had cut a wave short at its first keyframe: the
\* queue is empty, nothing is active, and R3 is still at the 45 degrees of
\* that keyframe.
C33_Witness ==
  /\ last.op = "update"
  /\ last.dt > 0
  /\ gesture.name = "wave"
  /\ cmds = 2
  /\ Idle
  /\ gait.movement_queue = << >>
  /\ gait.current_movement = wave_seq[1]
  /\ servos["R3"].current_angle = Deg(45)
  /\ servos["R3"].target_angle = Deg(45)

\* Every joint is at its configured center, current and target.
AllAtCenter(S) ==
  \A n \in ALL_SERVOS :
    /\ S[n].current_angle = Deg(SERVO_CENTER[n])
    /\ S[n].target_angle = Deg(SERVO_CENTER[n])

\* C34: right after construction every joint has current_angle =
\* target_angle = its configured center, and center_all(immediate=True) puts
\* every joint back there, whatever the joints' state before.
C34_Centering ==
  /\ AllAtCenter(controller_init)
  /\ AllAtCenter(center_all(servos, TRUE))
  /\ (last.op = "center_all" /\ last.immediate) => AllAtCenter(servos)
  /\ cmds = 0 => AllAtCenter(servos)

\* center_all(True) was the second command: every joint is at its center and
\* the PWM duty of L3 is the one of its center.
C34_Witness ==
  /\ last.op = "center_all"
  /\ last.immediate
  /\ cmds = 2
  /\ AllAtCenter(servos)
  /\ servos["L3"].duty = _angle_to_duty("L3", Deg(SERVO_CENTER["L3"]))

\* The joints that are not within 0.5 degree of their standing angle.
OffStand(sv) ==
  {n \in DOMAIN sv : 2 * Abs(sv[n].current_angle - get_pose("stand")[n]) >= Deg(1)}

NearStand == OffStand(servos) = {}

\* stop_walk was the last command and no gesture sequence is active.
StoppedNow == last.op = "stop_walk" /\ ~gait.is_moving

\* C35: after stop_walk with no gesture sequence active, the update cycles
\* bring every joint to within 0.5 degree of the standing pose (femurs 90,
\* knees 180) unless the walk is started again first; and an update that
\* finds the stopped robot there reports not-moving and changes no joint.
C35_StopWalkSettles ==
  /\ StoppedNow ~> (NearStand \/ gait.is_walking)
  /\ [][(last'.op = "update" /\ Idle /\ NearStand
           /\ get_targets(servos) = get_pose("stand"))
          => (~last'.moving /\ servos' = servos)]_vars
  /\ [][last'.op = "stop_walk"
          => (get_targets(servos') = get_pose("stand")
              /\ get_positions(servos') = get_positions(servos))]_vars

\* An update found the robot standing after a walk, stopped a quarter of a
\* cycle in, had been interpolated away: it reports not-moving, the femurs
\* are at 90 and the knees at 180.
C35_Witness ==
  /\ last.op = "update"
  /\ last.dt > 0
  /\ ~last.moving
  /\ cmds = 2
  /\ Idle
  /\ NearStand
  /\ gait.walk_phase = 4
  /\ AtPose(servos, get_pose("stand"))

\* The synthesized angles x lie inside the gait's envelope: femurs in
\* [50, 130], knees in [110, 180].
InEnvelope(x) ==
  /\ \A n \in FEMUR_SERVOS : Deg(50) <= x[n] /\ x[n] <= Deg(130)
  /\ \A n \in KNEE_SERVOS : Deg(110) <= x[n] /\ x[n] <= Deg(180)

\* C36: with the configured gait constants (center 90, swing 25, plant 180,
\* lift 110), for every direction in {-1, 0, 1} and turn in {-1, 0, 1} the
\* synthesized angles at the phase the walk has reached and at the sixteenth
\* after it lie in [50, 130] for the femurs and in [110, 180] for the knees,
\* inside every joint's limits, so that clamping leaves them as they are;
\* and the joints after a walking update with such a direction and turn
\* hold the synthesized angles themselves.
C36_GaitWithinLimits ==
  /\ (step_fwd + step_back) \div 2 = 90
  /\ (step_fwd - step_back) \div 2 = 25
  /\ step_plant = 180
  /\ step_lift = 110
  /\ \A p \in {gait.walk_phase, gait.walk_phase + 1} :
       \A d \in DIRECTIONS : \A t \in TURNS :
         LET x == get_walk_positions(p, d, t)
         IN  /\ InEnvelope(x)
             /\ \A n \in ALL_SERVOS :
                  /\ Deg(SERVO_LIMITS[n][1]) <= x[n]
                  /\ x[n] <= Deg(SERVO_LIMITS[n][2])
                  /\ Nearest(n, x[n]) = x[n]
  /\ (WalkUpdated /\ gait.walk_direction \in DIRECTIONS
        /\ gait.turn_direction \in TURNS)
       => LET x == get_walk_positions(gait.walk_phase, gait.walk_direction,
                                      gait.turn_direction)
          IN  /\ InEnvelope(get_positions(servos))
              /\ get_positions(servos) = x
              /\ get_targets(servos) = x

\* A walking update a quarter of a cycle into a forward walk turning right:
\* the femurs L2 and R2 are at the two ends of the envelope, 130 and 50, and
\* the knee R3 is at its lowest angle, 110.
C36_Witness ==
  /\ WalkUpdated
  /\ gait.walk_phase = 4
  /\ gait.walk_direction = 1
  /\ gait.turn_direction = 1
  /\ servos["L2"].current_angle = Deg(130)
  /\ servos["R2"].current_angle = Deg(50)
  /\ servos["R3"].current_angle = Deg(110)

\* C37: set_pose with a name that is none of neutral, stand, sit, tall and
\* crouch is not a no-op: it applies the neutral pose, setting the targets
\* of all eight joints to 90 and, when immediate, their current angles too,
\* and raises nothing.
C37_UnknownPoseIsNeutral ==
  [][(last'.op = "set_pose" /\ last'.name \notin POSE_NAMES)
       => /\ err' = "none"
          /\ get_targets(servos') = Pos(PoseOf(90, 90))
          /\ get_positions(servos')
               = IF last'.immediate THEN Pos(PoseOf(90, 90))
                                     ELSE get_positions(servos)
          /\ gait' = gait
          /\ get_pose(last'.name) = get_pose("neutral")]_vars

\* set_pose("flop") was called a quarter of a cycle into a walk, where
\* Group A's knees were at 110 and Group B's at 180: every joint is at 90.
C37_Witness ==
  /\ last.op = "set_pose"
  /\ last.name = "flop"
  /\ last.immediate
  /\ cmds = 2
  /\ gait.is_walking
  /\ gait.walk_phase = 4
  /\ AtPose(servos, Pos(PoseOf(90, 90)))
  /\ servos["R3"].duty = _angle_to_duty("R3", Deg(90))

\* The current keyframe of the gait g is a hold: it has no angle map.
Holding(g) ==
  /\ g.is_moving
  /\ ~g.is_walking
  /\ g.current_movement # None
  /\ g.current_movement[1] = None

\* C38: a hold keyframe, whose angle map is None as in the middle of bow,
\* changes no joint when it becomes current: the update that pops it leaves
\* every target as it was and the joints as the update_all of that cycle
\* alone leaves them, and starts the keyframe's time at 0 with its full
\* duration; and while it is current an update pops its successor if and
\* only if that duration has passed, leaving the targets alone until then.
C38_HoldKeyframe ==
  [][/\ (last'.op = "update" /\ InCalls(last'.calls, "_next") /\ Holding(gait'))
          => /\ get_targets(servos') = get_targets(servos)
             /\ servos' = update_all(servos, last'.dt).servos
             /\ gait'.movement_elapsed = 0
             /\ gait'.movement_duration = gait'.current_movement[2]
             /\ gait'.movement_duration = 500
     /\ (last'.op = "update" /\ Holding(gait))
          => /\ InCalls(last'.calls, "_next")
                  <=> gait.movement_elapsed >= gait.current_movement[2]
             /\ gait.movement_elapsed < gait.current_movement[2]
                  => /\ gait' = gait
                     /\ get_targets(servos') = get_targets(servos)]_vars

\* An update 0.4 s into the hold of an undisturbed bow: the hold is still
\* current, the successor still queued, and the knees are where the first
\* keyframe put them.
C38_Witness ==
  /\ last.op = "update"
  /\ ~InCalls(last.calls, "_next")
  /\ gesture.name = "bow"
  /\ gesture.clean
  /\ Holding(gait)
  /\ gait.current_movement = bow_seq[2]
  /\ gait.movement_elapsed = 400
  /\ Len(gait.movement_queue) = 1
  /\ servos["R3"].current_angle = Deg(120)
  /\ servos["R4"].current_angle = Deg(160)

\* C39: command-timeout safety stop: an update of the server that finds
\* more than 2000 ms passed since the last datagram of a client leaves the
\* timeout's halt called exactly once since that datagram, and one that
\* finds at most 2000 ms passed leaves it not called at all.
C39_TimeoutHaltsOnce ==
  [][last'.op = "udp_update"
       => /\ (udp'.client_addr # NoAddr /\ udp'.silent > timeout_ms)
               => udp'.halts = 1
          /\ udp'.silent <= timeout_ms => udp'.halts = 0]_vars

====
